---- MODULE Spec2Model ----
(***************************************************************************)
(* Model of tynm: parser.rs (a recursive-descent parser from a qualified   *)
(* type-name string to a TypeName tree) and types.rs (the renderer that    *)
(* writes the tree back with m leading and n trailing module segments).    *)
(*                                                                         *)
(* A string is a sequence of one-character strings, so that the parser's   *)
(* character tests and the renderer's concatenations are computed, not     *)
(* assumed.  A sink (the `buffer` of write_str) is the sequence of the     *)
(* chunks handed to buffer.write_str, in order.                            *)
(***************************************************************************)
EXTENDS Integers, Sequences, FiniteSets, TLC

\* ------------------------------------------------------------------------
\* Bounds of the model.
\* ------------------------------------------------------------------------

\* Width of usize in the model: usize::MAX is 2^UsizeBits - 1.
UsizeBits == 4

\* m and n are drawn from 0..MaxMN and from the two largest usize values.
MaxMN == 3

UsizeMax == 2 ^ UsizeBits - 1

Sizes == (0 .. MaxMN) \cup {UsizeMax - 1, UsizeMax}

\* ------------------------------------------------------------------------
\* Characters and strings.
\* ------------------------------------------------------------------------

LowerCase ==
    {"a", "b", "c", "d", "e", "f", "g", "h", "i", "j", "k", "l", "m",
     "n", "o", "p", "q", "r", "s", "t", "u", "v", "w", "x", "y", "z"}

UpperCase ==
    {"A", "B", "C", "D", "E", "F", "G", "H", "I", "J", "K", "L", "M",
     "N", "O", "P", "Q", "R", "S", "T", "U", "V", "W", "X", "Y", "Z"}

Digit == {"0", "1", "2", "3", "4", "5", "6", "7", "8", "9"}

\* &input[k..]
Skip(s, k) == SubSeq(s, k + 1, Len(s))

\* &input[..k]
Take(s, k) == SubSeq(s, 1, k)

\* str::starts_with
starts_with(s, p) == Len(p) <= Len(s) /\ Take(s, Len(p)) = p

\* Length of the longest prefix of s whose characters all satisfy P
\* (what nom's take_while consumes).
PrefixLen(P(_), s) ==
    IF \A i \in 1 .. Len(s) : P(s[i])
    THEN Len(s)
    ELSE (CHOOSE i \in 1 .. Len(s) : ~P(s[i]) /\ \A j \in 1 .. (i - 1) : P(s[j])) - 1

\* Index of the first occurrence of character c in s, 0 when there is none.
IndexOf(s, c) ==
    IF \E i \in 1 .. Len(s) : s[i] = c
    THEN CHOOSE i \in 1 .. Len(s) : s[i] = c /\ \A j \in 1 .. (i - 1) : s[j] # c
    ELSE 0

\* Concatenation of a sequence of strings.
RECURSIVE Concat(_)
Concat(ss) == IF ss = <<>> THEN <<>> ELSE Head(ss) \o Concat(Tail(ss))

RECURSIVE JoinFrom(_, _, _)
JoinFrom(ss, sep, i) ==
    IF i > Len(ss) THEN <<>> ELSE sep \o ss[i] \o JoinFrom(ss, sep, i + 1)

\* [&str]::join(sep)
join(ss, sep) == IF ss = <<>> THEN <<>> ELSE ss[1] \o JoinFrom(ss, sep, 2)

\* let x = v; F(x): v is evaluated once, whatever use F makes of x.
Bind(v, F(_)) == CHOOSE y \in {F(x) : x \in {v}} : TRUE

\* ------------------------------------------------------------------------
\* types.rs: the variants of TypeName.
\* ------------------------------------------------------------------------

TypeNameNone == [variant |-> "None"]

TypeNameNever == [variant |-> "Never"]

TypeNameUnit == [variant |-> "Unit"]

TypeNameStruct(module_path, simple_name, type_params) ==
    [module_path |-> module_path, simple_name |-> simple_name,
     type_params |-> type_params]

Struct(type_name_struct) ==
    [variant |-> "Struct", module_path |-> type_name_struct.module_path,
     simple_name |-> type_name_struct.simple_name,
     type_params |-> type_name_struct.type_params]

Trait(type_name_struct) == [variant |-> "Trait", inner |-> type_name_struct]

Tuple(type_params) == [variant |-> "Tuple", type_params |-> type_params]

Array(type_param, len) ==
    [variant |-> "Array", type_param |-> type_param, len |-> len]

Slice(type_param) == [variant |-> "Slice", type_param |-> type_param]

Reference(mutable, type_param) ==
    [variant |-> "Reference", mutable |-> mutable, type_param |-> type_param]

Pointer(const_or_mut, type_param) ==
    [variant |-> "Pointer", const_or_mut |-> const_or_mut,
     type_param |-> type_param]

\* ------------------------------------------------------------------------
\* parser.rs.  A parser returns Ok (the remaining input and a value), a
\* recoverable nom Error (carrying the input it failed at) or aborts with
\* the unimplemented!() panic of the pointer arm.
\* ------------------------------------------------------------------------

Ok(rest, val) == [kind |-> "Ok", rest |-> rest, val |-> val]

Error(rest) == [kind |-> "Error", rest |-> rest]

Unimplemented == [kind |-> "Unimplemented"]

PRIMITIVE_TYPES ==
    << <<"b", "o", "o", "l">>,
       <<"c", "h", "a", "r">>,
       <<"f", "3", "2">>,
       <<"f", "6", "4">>,
       <<"i", "1", "2", "8">>,
       <<"i", "1", "6">>,
       <<"i", "3", "2">>,
       <<"i", "6", "4">>,
       <<"i", "8">>,
       <<"i", "s", "i", "z", "e">>,
       <<"s", "t", "r">>,
       <<"u", "1", "2", "8">>,
       <<"u", "1", "6">>,
       <<"u", "3", "2">>,
       <<"u", "6", "4">>,
       <<"u", "8">>,
       <<"u", "s", "i", "z", "e">> >>

is_alphanumeric_underscore(c) ==
    c = "_" \/ c \in LowerCase \/ c \in UpperCase \/ c \in Digit

is_lowercase_alphanumeric_underscore(c) ==
    c = "_" \/ c \in Digit \/ c \in LowerCase

module_name(input) ==
    IF input # <<>> /\ input[1] \in LowerCase
    THEN LET k == PrefixLen(is_lowercase_alphanumeric_underscore, input)
         IN  Ok(Skip(input, k), Take(input, k))
    ELSE Ok(input, <<>>)

\* The loop of separated_list(tag("::"), module_name): module_name never
\* fails, so the list ends where the separator is missing.
RECURSIVE module_names_loop(_, _)
module_names_loop(i, res) ==
    IF ~starts_with(i, <<":", ":">>)
    THEN Ok(i, res)
    ELSE Bind(module_name(Skip(i, 2)),
              LAMBDA e : module_names_loop(e.rest, Append(res, e.val)))

\* separated_list(tag("::"), module_name) of nom 5: a first element that
\* consumes nothing is the SeparatedList error.
module_names(input) ==
    Bind(module_name(input),
         LAMBDA first :
            IF first.rest = input
            THEN Error(input)
            ELSE module_names_loop(first.rest, <<first.val>>))

\* (Variant: the empty names stay in the path.)
retain_all(names) == names

\* module_names.retain(|module_name| !module_name.is_empty())
retain_non_empty(names) == SelectSeq(names, LAMBDA module : module # <<>>)

module_path(input) ==
    Bind(module_names(input),
         LAMBDA r :
            IF r.kind = "Ok"
            THEN Ok(r.rest, retain_non_empty(r.val))
            ELSE r)

type_simple_name(input) ==
    IF input # <<>> /\ input[1] \in UpperCase
    THEN LET k == PrefixLen(is_alphanumeric_underscore, input)
         IN  Ok(Skip(input, k), Take(input, k))
    ELSE Ok(input, <<>>)

array_length(input) ==
    IF starts_with(input, <<";", " ">>)
    THEN LET after == Skip(input, 2)
             at == IndexOf(after, "]")
         IN  IF at = 0
             THEN Ok(after, [some |-> FALSE])
             ELSE Ok(Skip(after, at - 1), [some |-> TRUE, len |-> Take(after, at - 1)])
    ELSE Ok(input, [some |-> FALSE])

FindPrimitive(input) ==
    LET hits == {i \in 1 .. Len(PRIMITIVE_TYPES) : starts_with(input, PRIMITIVE_TYPES[i])}
    IN  IF hits = {} THEN 0 ELSE CHOOSE i \in hits : \A j \in hits : i <= j

named_primitive(input) ==
    LET at == FindPrimitive(input)
    IN  IF at = 0
        THEN [some |-> FALSE]
        ELSE LET prim_type == PRIMITIVE_TYPES[at]
                 remainder == Skip(input, Len(prim_type))
                 is_primitive_type ==
                    IF remainder = <<>>
                    THEN TRUE
                    ELSE ~is_lowercase_alphanumeric_underscore(remainder[1])
             IN  IF is_primitive_type
                 THEN [some |-> TRUE,
                       result |-> Ok(remainder, Struct(TypeNameStruct(<<>>, prim_type, <<>>)))]
                 ELSE [some |-> FALSE]

RECURSIVE type_name(_)
RECURSIVE type_name_list_loop(_, _)
RECURSIVE type_name_list(_)
RECURSIVE type_parameters(_)
RECURSIVE struct_type(_)
RECURSIVE array_or_slice(_)
RECURSIVE parse_reference(_)
RECURSIVE parse_tuple(_)

\* The input of type_name after a separator: tag(", ") consumed.
next_element_input(i) == Skip(i, 2)

\* The input of the first type_name of a parameter list: char('<') consumed.
type_parameters_input(input) == Skip(input, 1)

\* The input of type_name in array_or_slice: char('[') consumed.
\* (Variant: the bracket is left in the input of the element.)
array_element_input_whole(input) == input

array_element_input(input) == Skip(input, 1)

\* The input of type_name in parse_reference: char('&'), opt(tag("mut"))
\* and opt(char(' ')) consumed.
reference_referent_input(input) ==
    LET after_amp == Skip(input, 1)
        after_mut ==
            IF starts_with(after_amp, <<"m", "u", "t">>) THEN Skip(after_amp, 3) ELSE after_amp
    IN  IF starts_with(after_mut, <<" ">>) THEN Skip(after_mut, 1) ELSE after_mut

\* The input of the first type_name of a tuple: char('(') consumed.
tuple_elements_input(input) == Skip(input, 1)

\* The loop of separated_list(tag(", "), type_name).
type_name_list_loop(i, res) ==
    IF ~starts_with(i, <<",", " ">>)
    THEN Ok(i, res)
    ELSE Bind(type_name(next_element_input(i)),
              LAMBDA e :
                 CASE e.kind = "Unimplemented" -> e
                   [] e.kind = "Error" -> Ok(i, res)
                   [] e.kind = "Ok" ->
                        IF e.rest = i
                        THEN Error(e.rest)
                        ELSE type_name_list_loop(e.rest, Append(res, e.val)))

\* separated_list(tag(", "), type_name) of nom 5.
type_name_list(input) ==
    Bind(type_name(input),
         LAMBDA first :
            CASE first.kind = "Unimplemented" -> first
              [] first.kind = "Error" -> Ok(input, <<>>)
              [] first.kind = "Ok" ->
                   IF first.rest = input
                   THEN Error(input)
                   ELSE type_name_list_loop(first.rest, <<first.val>>))

type_parameters(input) ==
    IF ~starts_with(input, <<"<">>)
    THEN Ok(input, <<>>)
    ELSE Bind(type_name_list(type_parameters_input(input)),
              LAMBDA list :
                 CASE list.kind = "Unimplemented" -> list
                   [] list.kind = "Error" -> Ok(input, <<>>)
                   [] list.kind = "Ok" ->
                        IF starts_with(list.rest, <<">">>)
                        THEN Ok(Skip(list.rest, 1), list.val)
                        ELSE Ok(input, <<>>))

struct_type(input) ==
    Bind(module_path(input),
         LAMBDA path :
            IF path.kind # "Ok"
            THEN path
            ELSE Bind(type_simple_name(path.rest),
                      LAMBDA name :
                         Bind(type_parameters(name.rest),
                              LAMBDA params :
                                 IF params.kind # "Ok"
                                 THEN params
                                 ELSE Ok(params.rest,
                                         TypeNameStruct(path.val, name.val, params.val)))))

named_primitive_or_struct(input) ==
    Bind(named_primitive(input),
         LAMBDA prim :
            IF prim.some
            THEN prim.result
            ELSE Bind(struct_type(input),
                      LAMBDA s : IF s.kind = "Ok" THEN Ok(s.rest, Struct(s.val)) ELSE s))

trait_type(input) ==
    Bind(struct_type(input),
         LAMBDA s : IF s.kind = "Ok" THEN Ok(s.rest, Trait(s.val)) ELSE s)

array_or_slice_internal(input) ==
    Bind(type_name(input),
         LAMBDA elem :
            IF elem.kind # "Ok"
            THEN elem
            ELSE Bind(array_length(elem.rest),
                      LAMBDA len :
                         IF len.val.some
                         THEN Ok(len.rest, Array(elem.val, len.val.len))
                         ELSE Ok(len.rest, Slice(elem.val))))

array_or_slice(input) ==
    IF ~starts_with(input, <<"[">>)
    THEN Error(input)
    ELSE Bind(array_or_slice_internal(array_element_input(input)),
              LAMBDA inner :
                 IF inner.kind # "Ok"
                 THEN inner
                 ELSE IF starts_with(inner.rest, <<"]">>)
                      THEN Ok(Skip(inner.rest, 1), inner.val)
                      ELSE Error(inner.rest))

parse_reference(input) ==
    IF ~starts_with(input, <<"&">>)
    THEN Error(input)
    ELSE LET mut_str == starts_with(Skip(input, 1), <<"m", "u", "t">>)
         IN  Bind(type_name(reference_referent_input(input)),
                  LAMBDA type_param :
                     IF type_param.kind # "Ok"
                     THEN type_param
                     ELSE Ok(type_param.rest, Reference(mut_str, type_param.val)))

parse_unit(input) ==
    IF starts_with(input, <<"(", ")">>)
    THEN Ok(Skip(input, 2), TypeNameUnit)
    ELSE Error(input)

parse_tuple(input) ==
    IF ~starts_with(input, <<"(">>)
    THEN Error(input)
    ELSE Bind(type_name_list(tuple_elements_input(input)),
              LAMBDA list :
                 IF list.kind # "Ok"
                 THEN list
                 ELSE LET after_comma ==
                            IF starts_with(list.rest, <<",">>)
                            THEN Skip(list.rest, 1)
                            ELSE list.rest
                      IN  IF starts_with(after_comma, <<")">>)
                          THEN Ok(Skip(after_comma, 1), Tuple(list.val))
                          ELSE Error(after_comma))

parse_unit_or_tuple(input) ==
    Bind(parse_unit(input),
         LAMBDA unit : IF unit.kind = "Error" THEN parse_tuple(input) ELSE unit)

\* input.splitn(2, ' ') in the 'd' arm of type_name: the first token, and
\* the text after the first space when there is a space.
SplitFirstSpace(input) ==
    LET at == IndexOf(input, " ")
    IN  IF at = 0
        THEN [first |-> input, has_remainder |-> FALSE, remainder |-> <<>>]
        ELSE [first |-> Take(input, at - 1), has_remainder |-> TRUE,
              remainder |-> Skip(input, at)]

\* The '*' arm of type_name: unimplemented!("... pointer types.").
\* (Variant: the pointer is parsed, "*const T" or "*mut T".)
pointer_type_parsed(input) ==
    LET const == <<"c", "o", "n", "s", "t">>
        mut == <<"m", "u", "t">>
        const_or_mut ==
            IF starts_with(Skip(input, 1), const \o <<" ">>) THEN const ELSE mut
    IN  IF ~starts_with(Skip(input, 1), const_or_mut \o <<" ">>)
        THEN Error(input)
        ELSE Bind(named_primitive_or_struct(Skip(input, Len(const_or_mut) + 2)),
                  LAMBDA t : IF t.kind # "Ok"
                             THEN t
                             ELSE Ok(t.rest, Pointer(const_or_mut, t.val)))

pointer_type(input) == Unimplemented

type_name(input) ==
    IF input = <<>>
    THEN Ok(input, TypeNameNone)
    ELSE CASE input[1] = "[" -> array_or_slice(input)
           [] input[1] = "*" -> pointer_type(input)
           [] input[1] = "!" -> Ok(Skip(input, 1), TypeNameNever)
           [] input[1] = "&" -> parse_reference(input)
           [] input[1] = "(" -> parse_unit_or_tuple(input)
           [] input[1] = "d" ->
                LET split == SplitFirstSpace(input)
                IN  IF split.first = <<"d", "y", "n">>
                    THEN IF split.has_remainder
                         THEN trait_type(split.remainder)
                         ELSE Ok(<<>>, Struct(TypeNameStruct(<<>>, <<"d", "y", "n">>, <<>>)))
                    ELSE named_primitive_or_struct(input)
           [] OTHER -> named_primitive_or_struct(input)

\* impl From<&str> for TypeName: the remaining input is dropped, a nom
\* error is the "Failed to parse" panic.
From(text) ==
    Bind(type_name(text),
         LAMBDA r :
            CASE r.kind = "Ok" -> [status |-> "ok", tree |-> r.val]
              [] r.kind = "Error" -> [status |-> "parse_panic", tree |-> TypeNameNone]
              [] r.kind = "Unimplemented" ->
                   [status |-> "unimplemented_panic", tree |-> TypeNameNone])

\* ------------------------------------------------------------------------
\* The calls of type_name that one call of a parser makes itself: the set
\* of the inputs it hands to type_name, calls made inside those calls left
\* out.
\* ------------------------------------------------------------------------

RECURSIVE type_name_list_loop_calls(_)

\* separated_list: after an element, one more call when the separator
\* follows, and the loop goes on when that element consumed input.
type_name_list_loop_calls(i) ==
    IF ~starts_with(i, <<",", " ">>)
    THEN {}
    ELSE {next_element_input(i)} \cup
         Bind(type_name(next_element_input(i)),
              LAMBDA e : IF e.kind = "Ok" /\ e.rest # i
                         THEN type_name_list_loop_calls(e.rest)
                         ELSE {})

\* separated_list: the first element is always tried.
type_name_list_calls(input) ==
    {input} \cup
    Bind(type_name(input),
         LAMBDA first : IF first.kind = "Ok" /\ first.rest # input
                        THEN type_name_list_loop_calls(first.rest)
                        ELSE {})

type_parameters_calls(input) ==
    IF ~starts_with(input, <<"<">>)
    THEN {}
    ELSE type_name_list_calls(type_parameters_input(input))

\* struct_type (and trait_type, which maps it): module_path and
\* type_simple_name call no type_name, type_parameters follows them.
struct_type_calls(input) ==
    Bind(module_path(input),
         LAMBDA path : IF path.kind # "Ok"
                       THEN {}
                       ELSE type_parameters_calls(type_simple_name(path.rest).rest))

named_primitive_or_struct_calls(input) ==
    IF named_primitive(input).some THEN {} ELSE struct_type_calls(input)

array_or_slice_calls(input) ==
    IF ~starts_with(input, <<"[">>) THEN {} ELSE {array_element_input(input)}

parse_reference_calls(input) ==
    IF ~starts_with(input, <<"&">>) THEN {} ELSE {reference_referent_input(input)}

parse_tuple_calls(input) ==
    IF ~starts_with(input, <<"(">>)
    THEN {}
    ELSE type_name_list_calls(tuple_elements_input(input))

parse_unit_or_tuple_calls(input) ==
    IF parse_unit(input).kind = "Error" THEN parse_tuple_calls(input) ELSE {}

\* The arms of type_name.
type_name_calls(input) ==
    IF input = <<>>
    THEN {}
    ELSE CASE input[1] = "[" -> array_or_slice_calls(input)
           [] input[1] = "*" -> {}
           [] input[1] = "!" -> {}
           [] input[1] = "&" -> parse_reference_calls(input)
           [] input[1] = "(" -> parse_unit_or_tuple_calls(input)
           [] input[1] = "d" ->
                LET split == SplitFirstSpace(input)
                IN  IF split.first = <<"d", "y", "n">>
                    THEN IF split.has_remainder
                         THEN struct_type_calls(split.remainder)
                         ELSE {}
                    ELSE named_primitive_or_struct_calls(input)
           [] OTHER -> named_primitive_or_struct_calls(input)

\* ------------------------------------------------------------------------
\* types.rs: rendering.  A write_* operator takes the sink (buffer: &mut W)
\* and returns it after its writes, together with its Result and whether
\* it panicked (a slice index out of range).
\* ------------------------------------------------------------------------

\* A sink W: Write.  It takes every chunk, except that the call number
\* fails_at of its write_str returns Err (0: no call does).  attempts counts
\* the calls of write_str on it, writes are the chunks it took, err is the
\* Result that the latest operation returned.
Sink(fails_at) ==
    [fails_at |-> fails_at, attempts |-> 0, writes |-> <<>>, err |-> FALSE, panic |-> FALSE]

\* String::with_capacity(128): a String takes every write.
StringBuffer == Sink(0)

\* buffer.write_str(s)
buffer_write_str(buffer, s) ==
    IF buffer.attempts + 1 = buffer.fails_at
    THEN [buffer EXCEPT !.attempts = @ + 1, !.err = TRUE]
    ELSE [buffer EXCEPT !.attempts = @ + 1, !.writes = Append(@, s), !.err = FALSE]

\* Ok(())
OkUnit(buffer) == [buffer EXCEPT !.err = FALSE]

Panicked(buffer) == [buffer EXCEPT !.panic = TRUE]

\* The early return of `?`, and_then and try_for_each: on Err (and on a
\* panic, which unwinds).
\* (Variant: an Err is dropped and the writes go on.)
returns_early_on_panic_only(result) == result.panic

returns_early(result) == result.panic \/ result.err

\* result?; F(buffer)
Try(result, F(_)) ==
    Bind(result, LAMBDA done : IF returns_early(done) THEN done ELSE F(done))

\* The text in the buffer after the writes.
Text(result) == Concat(result.writes)

\* (Variant: usize::wrapping_add, m + n without saturation.)
wrapping_add(m, n) == (m + n) % (UsizeMax + 1)

\* usize::saturating_add
saturating_add(m, n) == IF m + n > UsizeMax THEN UsizeMax ELSE m + n

\* The test that chooses the full path: module_segment_count >= len.
\* (Variant: the comparison taken strictly.)
prints_full_path_strict(module_segment_count, len) == module_segment_count > len

\* (Variant: the full path is never chosen, the windows are always taken.)
prints_full_path_never(module_segment_count, len) == FALSE

prints_full_path(module_segment_count, len) == module_segment_count >= len

\* &self.module_path[0..m]: None when the range is out of bounds (the
\* slice panics).
\* (Variant: the window is one segment short.)
leading_segments_short(self, m) ==
    IF m > Len(self.module_path)
    THEN [some |-> FALSE]
    ELSE [some |-> TRUE, segments |-> SubSeq(self.module_path, 1, m - 1)]

leading_segments(self, m) ==
    IF m > Len(self.module_path)
    THEN [some |-> FALSE]
    ELSE [some |-> TRUE, segments |-> SubSeq(self.module_path, 1, m)]

\* &self.module_path[(len - n)..len]: None when len - n underflows (the
\* subtraction or the slice panics).
\* (Variant: the first n segments are skipped instead of the last n kept.)
trailing_segments_skip(self, n) ==
    LET len == Len(self.module_path)
    IN  IF n > len
        THEN [some |-> FALSE]
        ELSE [some |-> TRUE, segments |-> SubSeq(self.module_path, n + 1, len)]

trailing_segments(self, n) ==
    LET len == Len(self.module_path)
    IN  IF n > len
        THEN [some |-> FALSE]
        ELSE [some |-> TRUE, segments |-> SubSeq(self.module_path, len - n + 1, len)]

\* The test before the ".." marker: module_segment_count > 0.
\* (Variant: the marker is written whenever the path is not printed in full.)
writes_elision_marker_always(module_segment_count) == TRUE

writes_elision_marker(module_segment_count) == module_segment_count > 0

\* The test before the final "::": module_segment_count > 0.
\* (Variant: the separator is written for every node.)
writes_final_separator_always(self, module_segment_count) == TRUE

\* (Variant: the separator is written only after a path.)
writes_final_separator_after_path(self, module_segment_count) ==
    module_segment_count > 0 /\ self.module_path # <<>>

writes_final_separator(self, module_segment_count) == module_segment_count > 0

\* TypeNameStruct::write_module_path
write_module_path(self, buffer, m, n) ==
    LET module_segment_count == saturating_add(m, n)
        colons == <<":", ":">>
        path ==
            IF prints_full_path(module_segment_count, Len(self.module_path))
            THEN buffer_write_str(buffer, join(self.module_path, colons))
            ELSE LET leading == leading_segments(self, m)
                     trailing == trailing_segments(self, n)
                 IN  IF ~leading.some
                     THEN Panicked(buffer)
                     ELSE Try(buffer_write_str(buffer, join(leading.segments, colons)),
                          LAMBDA b1 :
                          Try(IF m > 0 THEN buffer_write_str(b1, colons) ELSE b1,
                          LAMBDA b2 :
                          Try(IF writes_elision_marker(module_segment_count)
                              THEN buffer_write_str(b2, <<".", ".">>)
                              ELSE b2,
                          LAMBDA b3 :
                          Try(IF n > 0 THEN buffer_write_str(b3, colons) ELSE b3,
                          LAMBDA b4 :
                              IF ~trailing.some
                              THEN Panicked(b4)
                              ELSE buffer_write_str(b4, join(trailing.segments, colons))))))
    IN  Try(path,
        LAMBDA b5 :
        Try(IF writes_final_separator(self, module_segment_count)
            THEN buffer_write_str(b5, colons)
            ELSE b5,
        LAMBDA b6 : OkUnit(b6)))

\* TypeNameStruct::write_simple_name
write_simple_name(self, buffer) == buffer_write_str(buffer, self.simple_name)

RECURSIVE write_str(_, _, _, _)
RECURSIVE write_rest(_, _, _, _, _)
RECURSIVE write_type_params(_, _, _, _)
RECURSIVE struct_write_str(_, _, _, _)
RECURSIVE tuple_write_str(_, _, _, _)

\* rest.iter().try_for_each(|type_param| write ", " then type_param): the
\* elements of type_params from index i on.
write_rest(type_params, i, buffer, m, n) ==
    IF i > Len(type_params)
    THEN OkUnit(buffer)
    ELSE Try(buffer_write_str(buffer, <<",", " ">>),
         LAMBDA b1 :
         Try(write_str(type_params[i], b1, m, n),
         LAMBDA b2 : write_rest(type_params, i + 1, b2, m, n)))

\* (Variant: the parameters decay by one segment per depth.)
write_type_params_decay(self, buffer, m, n) ==
    IF Len(self.type_params) > 0
    THEN Try(buffer_write_str(buffer, <<"<">>),
         LAMBDA b1 :
         Try(write_str(self.type_params[1], b1,
                       IF m > 0 THEN m - 1 ELSE 0, IF n > 0 THEN n - 1 ELSE 0),
         LAMBDA b2 :
         Try(write_rest(self.type_params, 2, b2,
                        IF m > 0 THEN m - 1 ELSE 0, IF n > 0 THEN n - 1 ELSE 0),
         LAMBDA b3 :
         Try(buffer_write_str(b3, <<">">>),
         LAMBDA b4 : OkUnit(b4)))))
    ELSE OkUnit(buffer)

\* TypeNameStruct::write_type_params
write_type_params(self, buffer, m, n) ==
    IF Len(self.type_params) > 0
    THEN Try(buffer_write_str(buffer, <<"<">>),
         LAMBDA b1 :
         Try(write_str(self.type_params[1], b1, m, n),
         LAMBDA b2 :
         Try(write_rest(self.type_params, 2, b2, m, n),
         LAMBDA b3 :
         Try(buffer_write_str(b3, <<">">>),
         LAMBDA b4 : OkUnit(b4)))))
    ELSE OkUnit(buffer)

\* TypeNameStruct::write_str
struct_write_str(self, buffer, m, n) ==
    Try(write_module_path(self, buffer, m, n),
    LAMBDA b1 :
    Try(write_simple_name(self, b1),
    LAMBDA b2 : write_type_params(self, b2, m, n)))

\* (Variant: the inner Struct is written with no module path.)
trait_write_str_unqualified(self, buffer, m, n) ==
    Try(buffer_write_str(buffer, <<"d", "y", "n", " ">>),
    LAMBDA b1 : struct_write_str(self.inner, b1, 0, 0))

\* TypeNameTrait::write_str
trait_write_str(self, buffer, m, n) ==
    Try(buffer_write_str(buffer, <<"d", "y", "n", " ">>),
    LAMBDA b1 : struct_write_str(self.inner, b1, m, n))

\* (Variant: no comma is forced after a single element.)
tuple_write_str_no_comma(self, buffer, m, n) ==
    IF Len(self.type_params) > 0
    THEN Try(buffer_write_str(buffer, <<"(">>),
         LAMBDA b1 :
         Try(write_str(self.type_params[1], b1, m, n),
         LAMBDA b2 :
         Try(write_rest(self.type_params, 2, b2, m, n),
         LAMBDA b3 :
         Try(buffer_write_str(b3, <<")">>),
         LAMBDA b4 : OkUnit(b4)))))
    ELSE OkUnit(buffer)

\* TypeNameTuple::write_str
tuple_write_str(self, buffer, m, n) ==
    IF Len(self.type_params) > 0
    THEN Try(buffer_write_str(buffer, <<"(">>),
         LAMBDA b1 :
         Try(write_str(self.type_params[1], b1, m, n),
         LAMBDA b2 :
         Try(IF Len(self.type_params) = 1
             THEN buffer_write_str(b2, <<",">>)
             ELSE write_rest(self.type_params, 2, b2, m, n),
         LAMBDA b3 :
         Try(buffer_write_str(b3, <<")">>),
         LAMBDA b4 : OkUnit(b4)))))
    ELSE OkUnit(buffer)

\* TypeNameArray::write_str
array_write_str(self, buffer, m, n) ==
    Try(buffer_write_str(buffer, <<"[">>),
    LAMBDA b1 :
    Try(write_str(self.type_param, b1, m, n),
    LAMBDA b2 :
    Try(buffer_write_str(b2, <<";", " ">>),
    LAMBDA b3 :
    Try(buffer_write_str(b3, self.len),
    LAMBDA b4 : buffer_write_str(b4, <<"]">>)))))

\* (Variant: the slice is written with a leading "&".)
slice_write_str_with_ampersand(self, buffer, m, n) ==
    Try(buffer_write_str(buffer, <<"&">>),
    LAMBDA b0 :
    Try(buffer_write_str(b0, <<"[">>),
    LAMBDA b1 :
    Try(write_str(self.type_param, b1, m, n),
    LAMBDA b2 : buffer_write_str(b2, <<"]">>))))

\* TypeNameSlice::write_str
slice_write_str(self, buffer, m, n) ==
    Try(buffer_write_str(buffer, <<"[">>),
    LAMBDA b1 :
    Try(write_str(self.type_param, b1, m, n),
    LAMBDA b2 : buffer_write_str(b2, <<"]">>)))

\* TypeNameReference::write_str
reference_write_str(self, buffer, m, n) ==
    Try(buffer_write_str(buffer, <<"&">>),
    LAMBDA b1 :
    Try(IF self.mutable THEN buffer_write_str(b1, <<"m", "u", "t", " ">>) ELSE b1,
    LAMBDA b2 : write_str(self.type_param, b2, m, n)))

\* TypeNamePointer::write_str
pointer_write_str(self, buffer, m, n) ==
    Try(buffer_write_str(buffer, <<"*", " ">>),
    LAMBDA b1 :
    Try(buffer_write_str(b1, self.const_or_mut),
    LAMBDA b2 :
    Try(buffer_write_str(b2, <<" ">>),
    LAMBDA b3 : write_str(self.type_param, b3, m, n))))

\* TypeName::write_str
write_str(self, buffer, m, n) ==
    CASE self.variant = "None" -> OkUnit(buffer)
      [] self.variant = "Array" -> array_write_str(self, buffer, m, n)
      [] self.variant = "Never" -> buffer_write_str(buffer, <<"!">>)
      [] self.variant = "Pointer" -> pointer_write_str(self, buffer, m, n)
      [] self.variant = "Reference" -> reference_write_str(self, buffer, m, n)
      [] self.variant = "Slice" -> slice_write_str(self, buffer, m, n)
      [] self.variant = "Struct" -> struct_write_str(self, buffer, m, n)
      [] self.variant = "Tuple" -> tuple_write_str(self, buffer, m, n)
      [] self.variant = "Trait" -> trait_write_str(self, buffer, m, n)
      [] self.variant = "Unit" -> buffer_write_str(buffer, <<"(", ")">>)

\* TypeName::as_str_mn: the String built by the writes, or the panic (of
\* the rendering, or of unwrap_or_else on an Err).
as_str_mn(self, m, n) ==
    Bind(write_str(self, StringBuffer, m, n),
         LAMBDA r : [status |-> IF r.panic \/ r.err THEN "panic" ELSE "ok",
                     writes |-> r.writes])

\* TypeName::as_str
as_str(self) == as_str_mn(self, 0, 0)

\* struct TypeNameDisplay
TypeNameDisplay(inner, parameters) == [inner |-> inner, parameters |-> parameters]

\* TypeName::as_display
as_display(self) == TypeNameDisplay(self, <<0, 0>>)

\* TypeName::as_display_mn
as_display_mn(self, m, n) == TypeNameDisplay(self, <<m, n>>)

\* (Variant: the two parameters change places.)
fmt_swapped(self, f) == write_str(self.inner, f, self.parameters[2], self.parameters[1])

\* impl fmt::Display for TypeNameDisplay: fmt writes into the Formatter f.
fmt(self, f) == write_str(self.inner, f, self.parameters[1], self.parameters[2])

\* format!("{display}"): fmt into a Formatter over a new String; an Err of
\* fmt is a panic.
format(display) ==
    Bind(fmt(display, StringBuffer),
         LAMBDA r : [status |-> IF r.panic \/ r.err THEN "panic" ELSE "ok",
                     writes |-> r.writes])

\* ------------------------------------------------------------------------
\* Inputs.  CompilerInputs are fully qualified type names of the form
\* core::any::type_name emits (the inputs of lib.rs's tests and doc
\* examples among them); OtherInputs are further strings, most of them
\* outside the grammar.
\* ------------------------------------------------------------------------

CompilerInputs ==
    {
      \* usize
      <<"u", "s", "i", "z", "e">>,
      \* u32
      <<"u", "3", "2">>,
      \* bool
      <<"b", "o", "o", "l">>,
      \* str
      <<"s", "t", "r">>,
      \* i8
      <<"i", "8">>,
      \* core::option::Option<alloc::string::String>
      <<"c", "o", "r", "e", ":", ":", "o", "p", "t", "i", "o", "n", ":", ":", "O", "p", "t", "i", "o", "n", "<", "a", "l", "l", "o", "c", ":", ":", "s", "t", "r", "i", "n", "g", ":", ":", "S", "t", "r", "i", "n", "g", ">">>,
      \* alloc::vec::Vec<(u32, alloc::string::String)>
      <<"a", "l", "l", "o", "c", ":", ":", "v", "e", "c", ":", ":", "V", "e", "c", "<", "(", "u", "3", "2", ",", " ", "a", "l", "l", "o", "c", ":", ":", "s", "t", "r", "i", "n", "g", ":", ":", "S", "t", "r", "i", "n", "g", ")", ">">>,
      \* [u32; 3]
      <<"[", "u", "3", "2", ";", " ", "3", "]">>,
      \* [alloc::string::String; 3]
      <<"[", "a", "l", "l", "o", "c", ":", ":", "s", "t", "r", "i", "n", "g", ":", ":", "S", "t", "r", "i", "n", "g", ";", " ", "3", "]">>,
      \* &[u32]
      <<"&", "[", "u", "3", "2", "]">>,
      \* ()
      <<"(", ")">>,
      \* !
      <<"!">>,
      \* (alloc::string::String,)
      <<"(", "a", "l", "l", "o", "c", ":", ":", "s", "t", "r", "i", "n", "g", ":", ":", "S", "t", "r", "i", "n", "g", ",", ")">>,
      \* (core::option::Option<alloc::string::String>, u32)
      <<"(", "c", "o", "r", "e", ":", ":", "o", "p", "t", "i", "o", "n", ":", ":", "O", "p", "t", "i", "o", "n", "<", "a", "l", "l", "o", "c", ":", ":", "s", "t", "r", "i", "n", "g", ":", ":", "S", "t", "r", "i", "n", "g", ">", ",", " ", "u", "3", "2", ")">>,
      \* &str
      <<"&", "s", "t", "r">>,
      \* &core::option::Option<alloc::string::String>
      <<"&", "c", "o", "r", "e", ":", ":", "o", "p", "t", "i", "o", "n", ":", ":", "O", "p", "t", "i", "o", "n", "<", "a", "l", "l", "o", "c", ":", ":", "s", "t", "r", "i", "n", "g", ":", ":", "S", "t", "r", "i", "n", "g", ">">>,
      \* core::option::Option<&alloc::string::String>
      <<"c", "o", "r", "e", ":", ":", "o", "p", "t", "i", "o", "n", ":", ":", "O", "p", "t", "i", "o", "n", "<", "&", "a", "l", "l", "o", "c", ":", ":", "s", "t", "r", "i", "n", "g", ":", ":", "S", "t", "r", "i", "n", "g", ">">>,
      \* dyn core::fmt::Debug
      <<"d", "y", "n", " ", "c", "o", "r", "e", ":", ":", "f", "m", "t", ":", ":", "D", "e", "b", "u", "g">>,
      \* alloc::boxed::Box<dyn core::fmt::Debug>
      <<"a", "l", "l", "o", "c", ":", ":", "b", "o", "x", "e", "d", ":", ":", "B", "o", "x", "<", "d", "y", "n", " ", "c", "o", "r", "e", ":", ":", "f", "m", "t", ":", ":", "D", "e", "b", "u", "g", ">">>,
      \* rust_out::two::three::Struct
      <<"r", "u", "s", "t", "_", "o", "u", "t", ":", ":", "t", "w", "o", ":", ":", "t", "h", "r", "e", "e", ":", ":", "S", "t", "r", "u", "c", "t">>,
      \* a::b::c::D
      <<"a", ":", ":", "b", ":", ":", "c", ":", ":", "D">>,
      \* a::b::c::d::E
      <<"a", ":", ":", "b", ":", ":", "c", ":", ":", "d", ":", ":", "E">>,
      \* a::a::b::C
      <<"a", ":", ":", "a", ":", ":", "b", ":", ":", "C">>,
      \* a::B<c::d::E<f::g::h::I>, u8>
      <<"a", ":", ":", "B", "<", "c", ":", ":", "d", ":", ":", "E", "<", "f", ":", ":", "g", ":", ":", "h", ":", ":", "I", ">", ",", " ", "u", "8", ">">>,
      \* &mut alloc::string::String
      <<"&", "m", "u", "t", " ", "a", "l", "l", "o", "c", ":", ":", "s", "t", "r", "i", "n", "g", ":", ":", "S", "t", "r", "i", "n", "g">>,
      \* &mut [a::b::C]
      <<"&", "m", "u", "t", " ", "[", "a", ":", ":", "b", ":", ":", "C", "]">>,
      \* &mutex::Guard
      <<"&", "m", "u", "t", "e", "x", ":", ":", "G", "u", "a", "r", "d">>,
      \* u32x4::Thing
      <<"u", "3", "2", "x", "4", ":", ":", "T", "h", "i", "n", "g">>,
      \* usize_helpers::T
      <<"u", "s", "i", "z", "e", "_", "h", "e", "l", "p", "e", "r", "s", ":", ":", "T">>,
      \* core::u32::Wrapper
      <<"c", "o", "r", "e", ":", ":", "u", "3", "2", ":", ":", "W", "r", "a", "p", "p", "e", "r">>,
      \* tynm::types::tests::TypeParamDouble<tynm::types::tests::Simple, tynm::types::tests::Simple>
      <<"t", "y", "n", "m", ":", ":", "t", "y", "p", "e", "s", ":", ":", "t", "e", "s", "t", "s", ":", ":", "T", "y", "p", "e", "P", "a", "r", "a", "m", "D", "o", "u", "b", "l", "e", "<", "t", "y", "n", "m", ":", ":", "t", "y", "p", "e", "s", ":", ":", "t", "e", "s", "t", "s", ":", ":", "S", "i", "m", "p", "l", "e", ",", " ", "t", "y", "n", "m", ":", ":", "t", "y", "p", "e", "s", ":", ":", "t", "e", "s", "t", "s", ":", ":", "S", "i", "m", "p", "l", "e", ">">>,
      \* [a::B]
      <<"[", "a", ":", ":", "B", "]">>,
      \* [[u32; 2]; 3]
      <<"[", "[", "u", "3", "2", ";", " ", "2", "]", ";", " ", "3", "]">>,
      \* (a::B, u8, c::D)
      <<"(", "a", ":", ":", "B", ",", " ", "u", "8", ",", " ", "c", ":", ":", "D", ")">>,
      \* dyn a::B<c::D>
      <<"d", "y", "n", " ", "a", ":", ":", "B", "<", "c", ":", ":", "D", ">">>,
      \* dynamic::Thing
      <<"d", "y", "n", "a", "m", "i", "c", ":", ":", "T", "h", "i", "n", "g">>
    }

OtherInputs ==
    {
      \* (the empty string)
      <<>>,
      \* dyn
      <<"d", "y", "n">>,
      \* dyn 
      <<"d", "y", "n", " ">>,
      \* *const u8
      <<"*", "c", "o", "n", "s", "t", " ", "u", "8">>,
      \* a::B<*const u8>
      <<"a", ":", ":", "B", "<", "*", "c", "o", "n", "s", "t", " ", "u", "8", ">">>,
      \* u32X
      <<"u", "3", "2", "X">>,
      \* u8::Foo
      <<"u", "8", ":", ":", "F", "o", "o">>,
      \* Simple
      <<"S", "i", "m", "p", "l", "e">>,
      \* a::b
      <<"a", ":", ":", "b">>,
      \* a::Vec<b::C
      <<"a", ":", ":", "V", "e", "c", "<", "b", ":", ":", "C">>,
      \* a::B extra
      <<"a", ":", ":", "B", " ", "e", "x", "t", "r", "a">>,
      \* [a::B
      <<"[", "a", ":", ":", "B">>,
      \* (a::B, c::D,)
      <<"(", "a", ":", ":", "B", ",", " ", "c", ":", ":", "D", ",", ")">>,
      \* fn(u32) -> u32
      <<"f", "n", "(", "u", "3", "2", ")", " ", "-", ">", " ", "u", "3", "2">>,
      \* a::B<>
      <<"a", ":", ":", "B", "<", ">">>,
      \* &*const u8
      <<"&", "*", "c", "o", "n", "s", "t", " ", "u", "8">>,
      \* &mut *mut u8
      <<"&", "m", "u", "t", " ", "*", "m", "u", "t", " ", "u", "8">>,
      \* (a::B, *mut u8)
      <<"(", "a", ":", ":", "B", ",", " ", "*", "m", "u", "t", " ", "u", "8", ")">>,
      \* [*const u8; 3]
      <<"[", "*", "c", "o", "n", "s", "t", " ", "u", "8", ";", " ", "3", "]">>,
      \* a::B<c::D, *const u8>
      <<"a", ":", ":", "B", "<", "c", ":", ":", "D", ",", " ", "*", "c", "o", "n", "s", "t", " ", "u", "8", ">">>,
      \* dyn Simple
      <<"d", "y", "n", " ", "S", "i", "m", "p", "l", "e">>,
      \* [a::B]]
      <<"[", "a", ":", ":", "B", "]", "]">>,
      \* ::a::B
      <<":", ":", "a", ":", ":", "B">>,
      \* a::::B
      <<"a", ":", ":", ":", ":", "B">>
    }

Inputs == CompilerInputs \cup OtherInputs

\* ------------------------------------------------------------------------
\* The program as a state machine: a caller holds a type-name string,
\* parses it once (TypeName::from) and renders the tree any number of
\* times (as_str, as_str_mn).
\* ------------------------------------------------------------------------

\* The largest call number at which a caller's sink fails.
MaxFailsAt == 6

\* (m, n) of the runs that hold two results side by side.
FewSizes == {0, 1, UsizeMax}

\* Trees that a caller builds from the public variants instead of parsing:
\* the parser returns no Pointer.
ConstructedTrees ==
    { Pointer(<<"c", "o", "n", "s", "t">>, Struct(TypeNameStruct(<<>>, <<"u", "8">>, <<>>))),
      Reference(FALSE,
                Pointer(<<"m", "u", "t">>,
                        Struct(TypeNameStruct(<< <<"a">>, <<"b">> >>, <<"C">>, <<>>)))) }

VARIABLES
    std_type_name,  \* the input string
    parsed,         \* the outcome of TypeName::from: its status and tree
    parameters,     \* (m, n) of the latest as_str / as_str_mn call
    buffer,         \* the outcome of the latest as_str / as_str_mn call
    display,        \* the TypeNameDisplay of the latest format! call
    formatted,      \* the outcome of the latest format! call
    sink,           \* the caller's sink after the latest write_str call
    kept,           \* a String the caller kept from an earlier call, with its (m, n)
    stack           \* the inputs of the type_name calls that have not returned

vars == <<std_type_name, parsed, parameters, buffer, display, formatted, sink, kept, stack>>

Init ==
    /\ std_type_name \in Inputs
    /\ parsed = [status |-> "unparsed", tree |-> TypeNameNone]
    /\ parameters = <<0, 0>>
    /\ buffer = [status |-> "none", writes |-> <<>>]
    /\ display = TypeNameDisplay(TypeNameNone, <<0, 0>>)
    /\ formatted = [status |-> "none", writes |-> <<>>]
    /\ sink = Sink(0)
    /\ kept = [parameters |-> <<0, 0>>, buffer |-> [status |-> "none", writes |-> <<>>]]
    /\ stack = <<>>

\* TypeName::from(std_type_name)
Parse ==
    /\ parsed.status = "unparsed"
    /\ parsed' = From(std_type_name)
    /\ UNCHANGED <<std_type_name, parameters, buffer, display, formatted, sink, kept, stack>>

\* A tree built by the caller: TypeName::Pointer(..)
Construct(tree) ==
    /\ parsed.status = "unparsed"
    /\ parsed' = [status |-> "constructed", tree |-> tree]
    /\ UNCHANGED <<std_type_name, parameters, buffer, display, formatted, sink, kept, stack>>

\* (Variant: the call writes after the String of the call before it.)
AsStrMnAppending(m, n) ==
    /\ parsed.status = "ok"
    /\ parameters' = <<m, n>>
    /\ buffer' = [status |-> as_str_mn(parsed.tree, m, n).status,
                  writes |-> buffer.writes \o as_str_mn(parsed.tree, m, n).writes]
    /\ UNCHANGED <<std_type_name, parsed, display, formatted, sink, kept, stack>>

\* tree.as_str_mn(m, n)
AsStrMn(m, n) ==
    /\ parsed.status = "ok"
    /\ parameters' = <<m, n>>
    /\ buffer' = as_str_mn(parsed.tree, m, n)
    /\ UNCHANGED <<std_type_name, parsed, display, formatted, sink, kept, stack>>

\* tree.as_str()
AsStr ==
    /\ parsed.status = "ok"
    /\ parameters' = <<0, 0>>
    /\ buffer' = as_str(parsed.tree)
    /\ UNCHANGED <<std_type_name, parsed, display, formatted, sink, kept, stack>>

\* format!("{}", tree.as_display())
FormatDisplay ==
    /\ parsed.status = "ok"
    /\ display' = as_display(parsed.tree)
    /\ formatted' = format(as_display(parsed.tree))
    /\ UNCHANGED <<std_type_name, parsed, parameters, buffer, sink, kept, stack>>

\* format!("{}", tree.as_display_mn(m, n))
FormatDisplayMn(m, n) ==
    /\ parsed.status = "ok"
    /\ display' = as_display_mn(parsed.tree, m, n)
    /\ formatted' = format(as_display_mn(parsed.tree, m, n))
    /\ UNCHANGED <<std_type_name, parsed, parameters, buffer, sink, kept, stack>>

\* tree.write_str(&mut sink, m, n) into a sink of the caller
WriteStr(fails_at, m, n) ==
    /\ parsed.status \in {"ok", "constructed"}
    /\ sink' = write_str(parsed.tree, Sink(fails_at), m, n)
    /\ UNCHANGED <<std_type_name, parsed, parameters, buffer, display, formatted, kept, stack>>

\* The caller keeps the String of the latest as_str / as_str_mn call.
Keep ==
    /\ parsed.status = "ok"
    /\ buffer.status # "none"
    /\ kept' = [parameters |-> parameters, buffer |-> buffer]
    /\ UNCHANGED <<std_type_name, parsed, parameters, buffer, display, formatted, sink, stack>>

Next ==
    \/ Parse
    \/ AsStr
    \/ \E m \in Sizes, n \in Sizes : AsStrMn(m, n)

Spec == Init /\ [][Next]_vars

\* A caller that renders both ways: into a String and through Display.
NextDisplay ==
    \/ Parse
    \/ AsStr
    \/ \E m \in FewSizes, n \in FewSizes : AsStrMn(m, n)
    \/ FormatDisplay
    \/ \E m \in FewSizes, n \in FewSizes : FormatDisplayMn(m, n)

SpecDisplay == Init /\ [][NextDisplay]_vars

\* A caller that writes into its own sink, which may fail.
NextSink ==
    \/ Parse
    \/ \E tree \in ConstructedTrees : Construct(tree)
    \/ \E fails_at \in 0 .. MaxFailsAt, m \in FewSizes, n \in FewSizes :
          WriteStr(fails_at, m, n)

SpecSink == Init /\ [][NextSink]_vars

\* A caller that keeps a rendered String and renders again.
NextKeep ==
    \/ Parse
    \/ AsStr
    \/ \E m \in FewSizes, n \in FewSizes : AsStrMn(m, n)
    \/ Keep

SpecKeep == Init /\ [][NextKeep]_vars

\* TypeName::from(std_type_name), one call of type_name at a time.
\* The call of type_name(std_type_name) in From.
Call ==
    /\ parsed.status = "unparsed"
    /\ parsed' = [status |-> "parsing", tree |-> TypeNameNone]
    /\ stack' = <<std_type_name>>
    /\ UNCHANGED <<std_type_name, parameters, buffer, display, formatted, sink, kept>>

\* The innermost call of type_name calls type_name.
Descend ==
    /\ parsed.status = "parsing"
    /\ stack # <<>>
    /\ \E input \in type_name_calls(stack[Len(stack)]) : stack' = Append(stack, input)
    /\ UNCHANGED <<std_type_name, parsed, parameters, buffer, display, formatted, sink, kept>>

\* The innermost call of type_name returns, or unwinds with a panic.
Return ==
    /\ parsed.status = "parsing"
    /\ stack # <<>>
    /\ stack' = SubSeq(stack, 1, Len(stack) - 1)
    /\ UNCHANGED <<std_type_name, parsed, parameters, buffer, display, formatted, sink, kept>>

\* From has its result once the outermost call has returned.
Finish ==
    /\ parsed.status = "parsing"
    /\ stack = <<>>
    /\ parsed' = From(std_type_name)
    /\ UNCHANGED <<std_type_name, parameters, buffer, display, formatted, sink, kept, stack>>

NextDescent ==
    \/ Call
    \/ Descend
    \/ Return
    \/ Finish

SpecDescent == Init /\ [][NextDescent]_vars

\* ------------------------------------------------------------------------
\* Vocabulary of the properties.
\* ------------------------------------------------------------------------

M == parameters[1]

N == parameters[2]

\* A tree was parsed and a render call has returned or panicked.
Rendered == parsed.status = "ok" /\ buffer.status # "none"

IsNominal(t) == t.variant \in {"Struct", "Trait"}

\* The TypeNameStruct of a Struct or Trait node.
Payload(t) ==
    IF t.variant = "Trait"
    THEN t.inner
    ELSE TypeNameStruct(t.module_path, t.simple_name, t.type_params)

\* What a nominal node writes before its module path.
Lead(t) == IF t.variant = "Trait" THEN <<"d", "y", "n", " ">> ELSE <<>>

RECURSIVE Nodes(_)
RECURSIVE NodesOfAll(_, _)

\* Every node of a tree, the root first.
Nodes(t) ==
    <<t>> \o
    (CASE t.variant = "Struct" -> NodesOfAll(t.type_params, 1)
       [] t.variant = "Trait" -> NodesOfAll(t.inner.type_params, 1)
       [] t.variant = "Tuple" -> NodesOfAll(t.type_params, 1)
       [] t.variant \in {"Array", "Slice", "Reference", "Pointer"} -> Nodes(t.type_param)
       [] OTHER -> <<>>)

NodesOfAll(ts, i) ==
    IF i > Len(ts) THEN <<>> ELSE Nodes(ts[i]) \o NodesOfAll(ts, i + 1)

\* The nominal nodes of a tree.
NominalNodes(t) == SelectSeq(Nodes(t), IsNominal)

\* The longest module path of a tree.
MaxDepth(t) ==
    LET lens == {Len(Payload(NominalNodes(t)[i]).module_path) :
                    i \in 1 .. Len(NominalNodes(t))} \cup {0}
    IN  CHOOSE d \in lens : \A e \in lens : e <= d

\* sub occurs in text.
Contains(text, sub) ==
    \E i \in 0 .. (Len(text) - Len(sub)) : SubSeq(text, i + 1, i + Len(sub)) = sub

RECURSIVE Skeleton(_)
RECURSIVE SkeletonList(_, _)

\* The elements from index i on, each after ", ".
SkeletonList(ts, i) ==
    IF i > Len(ts)
    THEN <<>>
    ELSE <<",", " ">> \o Skeleton(ts[i]) \o SkeletonList(ts, i + 1)

SkeletonParams(ts) ==
    IF ts = <<>> THEN <<>> ELSE <<"<">> \o Skeleton(ts[1]) \o SkeletonList(ts, 2) \o <<">">>

\* A tree written with simple names and type parameters only.
Skeleton(t) ==
    CASE t.variant = "Struct" -> t.simple_name \o SkeletonParams(t.type_params)
      [] t.variant = "Trait" ->
           <<"d", "y", "n", " ">> \o t.inner.simple_name
           \o SkeletonParams(t.inner.type_params)
      [] t.variant = "Tuple" ->
           IF t.type_params = <<>>
           THEN <<>>
           ELSE <<"(">> \o Skeleton(t.type_params[1])
                \o (IF Len(t.type_params) = 1 THEN <<",">> ELSE SkeletonList(t.type_params, 2))
                \o <<")">>
      [] t.variant = "Array" ->
           <<"[">> \o Skeleton(t.type_param) \o <<";", " ">> \o t.len \o <<"]">>
      [] t.variant = "Slice" -> <<"[">> \o Skeleton(t.type_param) \o <<"]">>
      [] t.variant = "Reference" ->
           <<"&">> \o (IF t.mutable THEN <<"m", "u", "t", " ">> ELSE <<>>)
           \o Skeleton(t.type_param)
      [] t.variant = "Pointer" ->
           <<"*", " ">> \o t.const_or_mut \o <<" ">> \o Skeleton(t.type_param)
      [] t.variant = "Unit" -> <<"(", ")">>
      [] t.variant = "Never" -> <<"!">>
      [] t.variant = "None" -> <<>>

\* ------------------------------------------------------------------------
\* C1.  Rendering a parsed tree with m = 0 and n = 0 writes simple names
\* and type-parameter lists only: the text is the skeleton of the tree and
\* holds no "::" separator and no ".." marker.
\* ------------------------------------------------------------------------
C1_SimpleNamesAtZero ==
    (Rendered /\ parameters = <<0, 0>>) =>
        /\ buffer.status = "ok"
        /\ Text(buffer) = Skeleton(parsed.tree)
        /\ ~Contains(Text(buffer), <<":", ":">>)
        /\ ~Contains(Text(buffer), <<".", ".">>)

\* "core::option::Option<alloc::string::String>" rendered "Option<String>".
C1_Witness ==
    /\ Rendered
    /\ parameters = <<0, 0>>
    /\ std_type_name = <<"c", "o", "r", "e", ":", ":", "o", "p", "t", "i", "o", "n", ":", ":", "O", "p", "t", "i", "o", "n", "<", "a", "l", "l", "o", "c", ":", ":", "s", "t", "r", "i", "n", "g", ":", ":", "S", "t", "r", "i", "n", "g", ">">>
    /\ Text(buffer) = <<"O", "p", "t", "i", "o", "n", "<", "S", "t", "r", "i", "n", "g", ">">>

\* ------------------------------------------------------------------------
\* C2.  A Struct or Trait node with a module path of length L, rendered
\* with 0 < m + n < L, writes the first m segments joined by "::", "::" if
\* m > 0, the marker "..", "::" if n > 0, the last n segments joined by
\* "::", and a final "::" before the simple name.
\* ------------------------------------------------------------------------
ElidedPath(path, m, n) ==
    join(SubSeq(path, 1, m), <<":", ":">>)
    \o (IF m > 0 THEN <<":", ":">> ELSE <<>>)
    \o <<".", ".">>
    \o (IF n > 0 THEN <<":", ":">> ELSE <<>>)
    \o join(SubSeq(path, Len(path) - n + 1, Len(path)), <<":", ":">>)
    \o <<":", ":">>

C2_ElidedPathFormat ==
    (/\ Rendered
     /\ IsNominal(parsed.tree)
     /\ 0 < M + N
     /\ M + N < Len(Payload(parsed.tree).module_path)) =>
        /\ buffer.status = "ok"
        /\ starts_with(Text(buffer),
                       Lead(parsed.tree)
                       \o ElidedPath(Payload(parsed.tree).module_path, M, N)
                       \o Payload(parsed.tree).simple_name)

\* "rust_out::two::three::Struct" rendered "rust_out::..::three::Struct".
C2_Witness ==
    /\ Rendered
    /\ parameters = <<1, 1>>
    /\ IsNominal(parsed.tree)
    /\ Len(Payload(parsed.tree).module_path) = 3
    /\ Text(buffer) = <<"r", "u", "s", "t", "_", "o", "u", "t", ":", ":", ".", ".", ":", ":", "t", "h", "r", "e", "e", ":", ":", "S", "t", "r", "u", "c", "t">>

\* ------------------------------------------------------------------------
\* C3.  A Struct or Trait node with a module path of length L >= 1,
\* rendered with m + n >= L, writes the full module path, every segment
\* once and in order, with no ".." marker, and "::" before the simple name.
\* ------------------------------------------------------------------------
C3_OverlapPrintsFullPath ==
    (/\ Rendered
     /\ IsNominal(parsed.tree)
     /\ Len(Payload(parsed.tree).module_path) >= 1
     /\ M + N >= Len(Payload(parsed.tree).module_path)) =>
        /\ buffer.status = "ok"
        /\ starts_with(Text(buffer),
                       Lead(parsed.tree)
                       \o join(Payload(parsed.tree).module_path, <<":", ":">>)
                       \o <<":", ":">>
                       \o Payload(parsed.tree).simple_name)

\* Path [a, b, c] with m = 2, n = 2 rendered "a::b::c::D".
C3_Witness ==
    /\ Rendered
    /\ parameters = <<2, 2>>
    /\ IsNominal(parsed.tree)
    /\ Payload(parsed.tree).module_path = << <<"a">>, <<"b">>, <<"c">> >>
    /\ Text(buffer) = <<"a", ":", ":", "b", ":", ":", "c", ":", ":", "D">>

\* ------------------------------------------------------------------------
\* C4.  Round trip: a well-formed qualified type name, parsed and rendered
\* with m and n both at least the longest module path of its tree, is
\* written back exactly.  (Stated for the renders that C5 and C6 leave
\* open: a tree with an empty-path node rendered with m + n > 0 gets "::"
\* before that node and cannot be written back exactly.)
\* ------------------------------------------------------------------------
HasEmptyPathNode(t) ==
    \E k \in 1 .. Len(NominalNodes(t)) : Payload(NominalNodes(t)[k]).module_path = <<>>

C4_RoundTrip ==
    (/\ Rendered
     /\ std_type_name \in CompilerInputs
     /\ M >= MaxDepth(parsed.tree)
     /\ N >= MaxDepth(parsed.tree)
     /\ (M + N = 0 \/ ~HasEmptyPathNode(parsed.tree))) =>
        /\ buffer.status = "ok"
        /\ Text(buffer) = std_type_name

\* ------------------------------------------------------------------------
\* C5.  As stated: a nominal node with an empty module path is rendered,
\* for every (m, n), as its simple name alone, with no "::" before it.
\* ------------------------------------------------------------------------
C5_EmptyPathNameOnly ==
    (/\ Rendered
     /\ IsNominal(parsed.tree)
     /\ Payload(parsed.tree).module_path = <<>>) =>
        /\ buffer.status = "ok"
        /\ starts_with(Text(buffer),
                       Lead(parsed.tree) \o Payload(parsed.tree).simple_name)

\* C5, amended.  A nominal node with an empty module path is rendered as
\* its simple name alone when m = n = 0, and as "::" followed by its simple
\* name for every other (m, n), the largest usize values included: no
\* module segment and no ".." marker is written, the separator is.
C5_EmptyPathSeparatorUnlessZero ==
    (/\ Rendered
     /\ IsNominal(parsed.tree)
     /\ Payload(parsed.tree).module_path = <<>>) =>
        /\ buffer.status = "ok"
        /\ starts_with(Text(buffer),
                       Lead(parsed.tree)
                       \o (IF M = 0 /\ N = 0 THEN <<>> ELSE <<":", ":">>)
                       \o Payload(parsed.tree).simple_name)
        /\ ~Contains(Text(buffer), <<".", ".">>)
        /\ Payload(parsed.tree).type_params = <<>> =>
              Len(Text(buffer)) =
                 Len(Lead(parsed.tree)) + Len(Payload(parsed.tree).simple_name)
                 + (IF M = 0 /\ N = 0 THEN 0 ELSE 2)

\* "usize" rendered with m = n = usize::MAX is "::usize".
C5_Witness ==
    /\ Rendered
    /\ std_type_name = <<"u", "s", "i", "z", "e">>
    /\ parameters = <<UsizeMax, UsizeMax>>
    /\ Text(buffer) = <<":", ":", "u", "s", "i", "z", "e">>

\* ------------------------------------------------------------------------
\* C6.  A Struct with an empty module path, at any depth, rendered with
\* m + n > 0: the chunk written immediately before its simple name is the
\* separator "::" (after the empty joined path); type_namem::<usize>(MAX)
\* and type_namemn::<usize>(MAX, MAX) are "::usize".
\* ------------------------------------------------------------------------
C6_SeparatorBeforeEmptyPathName ==
    (Rendered /\ M + N > 0) =>
        /\ \A k \in 1 .. Len(Nodes(parsed.tree)) :
              LET node == Nodes(parsed.tree)[k]
              IN  (node.variant = "Struct" /\ node.module_path = <<>>) =>
                      \E i \in 1 .. (Len(buffer.writes) - 2) :
                          /\ buffer.writes[i] = <<>>
                          /\ buffer.writes[i + 1] = <<":", ":">>
                          /\ buffer.writes[i + 2] = node.simple_name
        /\ (/\ std_type_name = <<"u", "s", "i", "z", "e">>
            /\ parameters \in {<<UsizeMax, 0>>, <<UsizeMax, UsizeMax>>}) =>
               Text(buffer) = <<":", ":", "u", "s", "i", "z", "e">>

\* type_namem::<usize>(usize::MAX) returned "::usize".
C6_Witness ==
    /\ Rendered
    /\ std_type_name = <<"u", "s", "i", "z", "e">>
    /\ parameters = <<UsizeMax, 0>>
    /\ buffer.writes = << <<>>, <<":", ":">>, <<"u", "s", "i", "z", "e">> >>

\* ------------------------------------------------------------------------
\* C7.  When m + n exceeds usize::MAX the segment budget is usize::MAX:
\* the render does not panic, writes every module path in full with no
\* ".." marker, and is the text written for (usize::MAX, 0).
\* ------------------------------------------------------------------------
C7_BudgetSaturates ==
    (Rendered /\ M + N > UsizeMax) =>
        /\ saturating_add(M, N) = UsizeMax
        /\ buffer.status = "ok"
        /\ ~Contains(Text(buffer), <<".", ".">>)
        /\ Text(buffer) = Concat(as_str_mn(parsed.tree, UsizeMax, 0).writes)

\* A path of three or more segments rendered in full with
\* m = usize::MAX - 1 and n = 2.
C7_Witness ==
    /\ Rendered
    /\ parameters = <<UsizeMax - 1, 2>>
    /\ IsNominal(parsed.tree)
    /\ Len(Payload(parsed.tree).module_path) >= 3
    /\ buffer.status = "ok"
    /\ starts_with(Text(buffer), join(Payload(parsed.tree).module_path, <<":", ":">>))

\* ------------------------------------------------------------------------
\* C8.  The (m, n) of the root call reaches every nested node unchanged:
\* the text that each nested node writes when rendered alone with the same
\* (m, n) occurs in the text of the root.
\* ------------------------------------------------------------------------
C8_SameParametersAtEveryDepth ==
    (Rendered /\ buffer.status = "ok") =>
        \A k \in 2 .. Len(Nodes(parsed.tree)) :
            Contains(Text(buffer), Text(write_str(Nodes(parsed.tree)[k], StringBuffer, M, N)))

\* "core::option::Option<alloc::string::String>" with m = 1, n = 0 is
\* "core::..::Option<alloc::..::String>".
C8_Witness ==
    /\ Rendered
    /\ parameters = <<1, 0>>
    /\ std_type_name = <<"c", "o", "r", "e", ":", ":", "o", "p", "t", "i", "o", "n", ":", ":", "O", "p", "t", "i", "o", "n", "<", "a", "l", "l", "o", "c", ":", ":", "s", "t", "r", "i", "n", "g", ":", ":", "S", "t", "r", "i", "n", "g", ">">>
    /\ Text(buffer) = <<"c", "o", "r", "e", ":", ":", ".", ".", ":", ":", "O", "p", "t", "i", "o", "n", "<", "a", "l", "l", "o", "c", ":", ":", ".", ".", ":", ":", "S", "t", "r", "i", "n", "g", ">">>

\* ------------------------------------------------------------------------
\* C9.  Elision monotonicity: for m2 >= m and n2 >= n, every nominal node
\* shows at (m2, n2) the segments it shows at (m, n), and omits no more.
\* ------------------------------------------------------------------------

\* Index of the first "::" of s, 0 when there is none.
FirstColons(s) ==
    IF \E i \in 1 .. (Len(s) - 1) : s[i] = ":" /\ s[i + 1] = ":"
    THEN CHOOSE i \in 1 .. (Len(s) - 1) :
            /\ s[i] = ":" /\ s[i + 1] = ":"
            /\ \A j \in 1 .. (i - 1) : ~(s[j] = ":" /\ s[j + 1] = ":")
    ELSE 0

RECURSIVE SplitColons(_)
\* The pieces of s between its "::" separators.
SplitColons(s) ==
    IF FirstColons(s) = 0
    THEN <<s>>
    ELSE <<Take(s, FirstColons(s) - 1)>> \o SplitColons(Skip(s, FirstColons(s) + 1))

\* The module segments in the text write_module_path writes.
ShownSegments(self, m, n) ==
    SelectSeq(SplitColons(Text(write_module_path(self, StringBuffer, m, n))),
              LAMBDA piece : piece # <<>> /\ piece # <<".", ".">>)

RECURSIVE IsSubseq(_, _)
\* a is b with some elements left out.
IsSubseq(a, b) ==
    IF a = <<>>
    THEN TRUE
    ELSE IF b = <<>>
         THEN FALSE
         ELSE IF Head(a) = Head(b)
              THEN IsSubseq(Tail(a), Tail(b))
              ELSE IsSubseq(a, Tail(b))

C9_ElisionMonotone ==
    Rendered =>
        \A m2 \in Sizes, n2 \in Sizes :
            (m2 >= M /\ n2 >= N) =>
                \A k \in 1 .. Len(NominalNodes(parsed.tree)) :
                    LET self == Payload(NominalNodes(parsed.tree)[k])
                    IN  /\ ~write_module_path(self, StringBuffer, M, N).panic
                        /\ ~write_module_path(self, StringBuffer, m2, n2).panic
                        /\ IsSubseq(ShownSegments(self, M, N), ShownSegments(self, m2, n2))
                        /\ Len(self.module_path) - Len(ShownSegments(self, m2, n2))
                              <= Len(self.module_path) - Len(ShownSegments(self, M, N))

\* Path [a, b, c, d] at (1, 0) shows a; at (1, 2) it shows a, c and d.
C9_Witness ==
    /\ Rendered
    /\ parameters = <<1, 0>>
    /\ IsNominal(parsed.tree)
    /\ Len(Payload(parsed.tree).module_path) = 4
    /\ ShownSegments(Payload(parsed.tree), 1, 0) = << <<"a">> >>
    /\ ShownSegments(Payload(parsed.tree), 1, 2) = << <<"a">>, <<"c">>, <<"d">> >>
    /\ Text(buffer) = <<"a", ":", ":", ".", ".", ":", ":", "E">>

\* ------------------------------------------------------------------------
\* C10.  As stated: the input is classified as the primitive p (a Struct
\* with an empty module path, simple name p and no type parameters) if and
\* only if it starts with a keyword p of the primitive table and the
\* character after p is the end of the input or not a letter, digit or
\* underscore.
\* ------------------------------------------------------------------------
StartsWithKeywordAtBoundary(s) ==
    \E i \in 1 .. Len(PRIMITIVE_TYPES) :
        /\ starts_with(s, PRIMITIVE_TYPES[i])
        /\ \/ Len(s) = Len(PRIMITIVE_TYPES[i])
           \/ ~is_alphanumeric_underscore(s[Len(PRIMITIVE_TYPES[i]) + 1])

ClassifiedPrimitive(t, s) ==
    /\ t.variant = "Struct"
    /\ t.module_path = <<>>
    /\ t.type_params = <<>>
    /\ \E i \in 1 .. Len(PRIMITIVE_TYPES) :
          t.simple_name = PRIMITIVE_TYPES[i] /\ starts_with(s, PRIMITIVE_TYPES[i])

C10_PrimitiveIffIdentifierBoundary ==
    parsed.status # "unparsed" =>
        ((parsed.status = "ok" /\ ClassifiedPrimitive(parsed.tree, std_type_name))
            <=> StartsWithKeywordAtBoundary(std_type_name))

\* ------------------------------------------------------------------------
\* C11.  As stated: parsing is all-or-nothing.  Whenever TypeName::from
\* returns a tree, the parser has consumed the whole input and every
\* Struct or Trait node of the tree has a simple name; any other input
\* panics.
\* ------------------------------------------------------------------------

\* The input that type_name leaves unconsumed.
Unconsumed(text) ==
    Bind(type_name(text), LAMBDA r : IF r.kind = "Ok" THEN r.rest ELSE <<>>)

C11_AllOrNothing ==
    parsed.status = "ok" =>
        /\ Unconsumed(std_type_name) = <<>>
        /\ \A k \in 1 .. Len(NominalNodes(parsed.tree)) :
              Payload(NominalNodes(parsed.tree)[k]).simple_name # <<>>

\* ------------------------------------------------------------------------
\* C12.  Whenever the input has '*' where type_name is entered (at the top
\* level, after a reference, as a tuple element, as an array or slice
\* element, as a type parameter), the parse aborts with the unimplemented
\* pointer panic; and no tree that parse returns has a Pointer node at any
\* depth.
\* ------------------------------------------------------------------------

\* The texts after which the parser enters type_name on the next character.
EntryOpeners ==
    { <<>>,
      <<"&">>,
      <<"&", "m", "u", "t", " ">>,
      <<"[">>,
      <<"(", "a", ":", ":", "B", ",", " ">>,
      <<"a", ":", ":", "B", "<">>,
      <<"a", ":", ":", "B", "<", "c", ":", ":", "D", ",", " ">> }

StarAtEntry(s) ==
    \E i \in 1 .. Len(s) : s[i] = "*" /\ Take(s, i - 1) \in EntryOpeners

C12_PointerAborts ==
    parsed.status # "unparsed" =>
        /\ StarAtEntry(std_type_name) => parsed.status = "unimplemented_panic"
        /\ parsed.status = "ok" =>
              \A k \in 1 .. Len(Nodes(parsed.tree)) :
                  Nodes(parsed.tree)[k].variant # "Pointer"

\* "a::B<c::D, *const u8>": the '*' is met as the second type parameter.
C12_Witness ==
    /\ std_type_name =
          <<"a", ":", ":", "B", "<", "c", ":", ":", "D", ",", " ",
            "*", "c", "o", "n", "s", "t", " ", "u", "8", ">">>
    /\ StarAtEntry(std_type_name)
    /\ parsed.status = "unimplemented_panic"

\* ------------------------------------------------------------------------
\* C13.  As stated: an input that begins with "fn(" (a function pointer
\* type such as "fn(u32) -> u32") is fatal, TypeName::from returns no tree
\* for it.
\* ------------------------------------------------------------------------
C13_FnPointerFatal ==
    (parsed.status # "unparsed" /\ starts_with(std_type_name, <<"f", "n", "(">>))
        => parsed.status # "ok"

\* ------------------------------------------------------------------------
\* C14.  Tuples keep their shape through parse and render.  "()" parses
\* to Unit and renders "()".  A parenthesised input parses to a Tuple whose
\* elements are the trees of its comma-separated element texts, in order.
\* A Tuple of one element renders "(" + element + ",)", a Tuple of k >= 2
\* elements renders "(" + the elements joined by ", " + ")".
\* ------------------------------------------------------------------------

\* What a node writes on its own with (m, n).
NodeText(t, m, n) == Text(write_str(t, StringBuffer, m, n))

RECURSIVE SplitTop(_, _, _, _)

\* The pieces of s between the ", " separators that are outside every
\* bracket; the scan is at i, the current piece begins at start.
SplitTop(s, i, depth, start) ==
    IF i > Len(s)
    THEN <<SubSeq(s, start, Len(s))>>
    ELSE IF s[i] \in {"<", "(", "["}
         THEN SplitTop(s, i + 1, depth + 1, start)
         ELSE IF s[i] \in {">", ")", "]"}
              THEN SplitTop(s, i + 1, depth - 1, start)
              ELSE IF depth = 0 /\ s[i] = "," /\ i < Len(s) /\ s[i + 1] = " "
                   THEN <<SubSeq(s, start, i - 1)>> \o SplitTop(s, i + 2, 0, i + 2)
                   ELSE SplitTop(s, i + 1, depth, start)

\* The element texts of a parenthesised input "(e1, e2, ...)" or "(e1,)".
TupleElements(s) ==
    LET inner == SubSeq(s, 2, Len(s) - 1)
        body == IF inner # <<>> /\ inner[Len(inner)] = ","
                THEN Take(inner, Len(inner) - 1)
                ELSE inner
    IN  SplitTop(body, 1, 0, 1)

IsTupleText(s) == Len(s) > 2 /\ s[1] = "(" /\ s[Len(s)] = ")"

\* The text of a Tuple node according to the rule.
TupleShape(t, m, n) ==
    LET elems == [i \in 1 .. Len(t.type_params) |-> NodeText(t.type_params[i], m, n)]
    IN  IF Len(elems) = 1
        THEN <<"(">> \o elems[1] \o <<",", ")">>
        ELSE <<"(">> \o join(elems, <<",", " ">>) \o <<")">>

C14_TuplesKeepShape ==
    /\ (parsed.status # "unparsed" /\ std_type_name = <<"(", ")">>) =>
          /\ parsed = [status |-> "ok", tree |-> TypeNameUnit]
          /\ Rendered => Text(buffer) = <<"(", ")">>
    /\ (parsed.status = "ok" /\ IsTupleText(std_type_name)) =>
          LET elements == TupleElements(std_type_name)
          IN  /\ parsed.tree.variant = "Tuple"
              /\ Len(parsed.tree.type_params) = Len(elements)
              /\ \A i \in 1 .. Len(elements) :
                    From(elements[i]) = [status |-> "ok", tree |-> parsed.tree.type_params[i]]
              /\ Rendered => Text(buffer) = TupleShape(parsed.tree, M, N)
    /\ Rendered =>
          \A k \in 1 .. Len(Nodes(parsed.tree)) :
              LET t == Nodes(parsed.tree)[k]
              IN  (t.variant = "Tuple" /\ Len(t.type_params) >= 1) =>
                      /\ NodeText(t, M, N) = TupleShape(t, M, N)
                      /\ Contains(Text(buffer), TupleShape(t, M, N))

\* "(alloc::string::String,)" is a Tuple of one element and renders
\* "(String,)" at (0, 0) and "(alloc::..::String,)" at (1, 0).
C14_Witness ==
    /\ Rendered
    /\ parsed.tree.variant = "Tuple"
    /\ Len(parsed.tree.type_params) = 1
    /\ parameters = <<1, 0>>
    /\ Text(buffer) =
          <<"(", "a", "l", "l", "o", "c", ":", ":", ".", ".", ":", ":",
            "S", "t", "r", "i", "n", "g", ",", ")">>

\* ------------------------------------------------------------------------
\* C15.  A bracketed input "[T; len]" parses to Array with the tree of T
\* as element and the text between "; " and "]" as len, character for
\* character; "[T]" without "; " parses to Slice with the tree of T.  An
\* Array renders "[" + element + "; " + len + "]" and a Slice renders
\* "[" + element + "]", with no "&" before it.
\* ------------------------------------------------------------------------

RECURSIVE TopSemi(_, _, _)

\* The index of the first "; " of s outside every bracket, from i on; 0
\* when there is none.
TopSemi(s, i, depth) ==
    IF i >= Len(s)
    THEN 0
    ELSE IF s[i] \in {"<", "(", "["}
         THEN TopSemi(s, i + 1, depth + 1)
         ELSE IF s[i] \in {">", ")", "]"}
              THEN TopSemi(s, i + 1, depth - 1)
              ELSE IF depth = 0 /\ s[i] = ";" /\ s[i + 1] = " "
                   THEN i
                   ELSE TopSemi(s, i + 1, depth)

IsBracketText(s) == Len(s) > 2 /\ s[1] = "[" /\ s[Len(s)] = "]"

ArrayShape(t, m, n) ==
    <<"[">> \o NodeText(t.type_param, m, n) \o <<";", " ">> \o t.len \o <<"]">>

SliceShape(t, m, n) == <<"[">> \o NodeText(t.type_param, m, n) \o <<"]">>

C15_ArraysAndSlices ==
    /\ (parsed.status = "ok" /\ IsBracketText(std_type_name)) =>
          LET inner == SubSeq(std_type_name, 2, Len(std_type_name) - 1)
              at == TopSemi(inner, 1, 0)
          IN  IF at > 0
              THEN /\ From(Take(inner, at - 1)).status = "ok"
                   /\ parsed.tree = Array(From(Take(inner, at - 1)).tree, Skip(inner, at + 1))
                   /\ Rendered => Text(buffer) = ArrayShape(parsed.tree, M, N)
              ELSE /\ From(inner).status = "ok"
                   /\ parsed.tree = Slice(From(inner).tree)
                   /\ Rendered => Text(buffer) = SliceShape(parsed.tree, M, N)
    /\ Rendered =>
          \A k \in 1 .. Len(Nodes(parsed.tree)) :
              LET t == Nodes(parsed.tree)[k]
              IN  /\ t.variant = "Array" =>
                        /\ NodeText(t, M, N) = ArrayShape(t, M, N)
                        /\ Contains(Text(buffer), ArrayShape(t, M, N))
                  /\ t.variant = "Slice" =>
                        /\ NodeText(t, M, N) = SliceShape(t, M, N)
                        /\ Contains(Text(buffer), SliceShape(t, M, N))

\* "[[u32; 2]; 3]" is an Array of length text "3" whose element is an Array
\* of length text "2", and renders as the input at (0, 0).
C15_Witness ==
    /\ Rendered
    /\ parameters = <<0, 0>>
    /\ parsed.tree.variant = "Array"
    /\ parsed.tree.len = <<"3">>
    /\ parsed.tree.type_param.variant = "Array"
    /\ parsed.tree.type_param.len = <<"2">>
    /\ Text(buffer) = std_type_name

\* ------------------------------------------------------------------------
\* C16.  An input "dyn " + text, with text not empty, parses to the Trait
\* that wraps the Struct parsed from text; a Trait node renders "dyn " and
\* then what its inner Struct renders with the same (m, n).  So
\* "dyn core::fmt::Debug" is "dyn Debug" at (0, 0), "dyn core::..::Debug"
\* at (1, 0) and "dyn ..::fmt::Debug" at (0, 1).
\* ------------------------------------------------------------------------

Dyn == <<"d", "y", "n", " ">>

IsDynText(s) == starts_with(s, Dyn) /\ Len(s) > Len(Dyn)

DynDebug ==
    Dyn \o <<"c", "o", "r", "e", ":", ":", "f", "m", "t", ":", ":", "D", "e", "b", "u", "g">>

C16_TraitWrapsStruct ==
    /\ (parsed.status # "unparsed" /\ IsDynText(std_type_name)) =>
          LET rest == From(Skip(std_type_name, Len(Dyn)))
          IN  (rest.status = "ok" /\ rest.tree.variant = "Struct"
                   /\ rest.tree.module_path # <<>>) =>
                  parsed = [status |-> "ok", tree |-> Trait(Payload(rest.tree))]
    /\ Rendered =>
          \A k \in 1 .. Len(Nodes(parsed.tree)) :
              LET t == Nodes(parsed.tree)[k]
              IN  t.variant = "Trait" =>
                      /\ NodeText(t, M, N) = Dyn \o NodeText(Struct(t.inner), M, N)
                      /\ Contains(Text(buffer), Dyn \o NodeText(Struct(t.inner), M, N))
    /\ (Rendered /\ std_type_name = DynDebug) =>
          /\ parameters = <<0, 0>> => Text(buffer) = Dyn \o <<"D", "e", "b", "u", "g">>
          /\ parameters = <<1, 0>> =>
                Text(buffer) = Dyn \o <<"c", "o", "r", "e", ":", ":", ".", ".", ":", ":",
                                        "D", "e", "b", "u", "g">>
          /\ parameters = <<0, 1>> =>
                Text(buffer) = Dyn \o <<".", ".", ":", ":", "f", "m", "t", ":", ":",
                                        "D", "e", "b", "u", "g">>

\* "dyn core::fmt::Debug" rendered at (0, 1).
C16_Witness ==
    /\ Rendered
    /\ std_type_name = DynDebug
    /\ parsed.tree = Trait(TypeNameStruct(<< <<"c", "o", "r", "e">>, <<"f", "m", "t">> >>,
                                          <<"D", "e", "b", "u", "g">>, <<>>))
    /\ parameters = <<0, 1>>
    /\ Text(buffer) = Dyn \o <<".", ".", ":", ":", "f", "m", "t", ":", ":",
                              "D", "e", "b", "u", "g">>

\* ------------------------------------------------------------------------
\* C17.  The streaming and the string-building renderers agree: whenever
\* the caller holds the String of as_str_mn(m, n) (or as_str, m = n = 0)
\* and the output of format! on as_display_mn(m, n) (or as_display) with
\* the same (m, n) of the same tree, the two are the same text, and one
\* panics exactly when the other does.
\* ------------------------------------------------------------------------
C17_DisplayAgreesWithAsStr ==
    (/\ parsed.status = "ok"
     /\ buffer.status # "none"
     /\ formatted.status # "none"
     /\ display.parameters = parameters) =>
        /\ display.inner = parsed.tree
        /\ formatted.status = buffer.status
        /\ Text(formatted) = Text(buffer)

\* Option<String> through as_str_mn(1, 0) and through as_display_mn(1, 0).
C17_Witness ==
    /\ parsed.status = "ok"
    /\ buffer.status = "ok"
    /\ formatted.status = "ok"
    /\ parameters = <<1, 0>>
    /\ display = TypeNameDisplay(parsed.tree, <<1, 0>>)
    /\ Text(formatted) =
          <<"c", "o", "r", "e", ":", ":", ".", ".", ":", ":", "O", "p", "t", "i", "o", "n",
            "<", "a", "l", "l", "o", "c", ":", ":", ".", ".", ":", ":",
            "S", "t", "r", "i", "n", "g", ">">>
    /\ Text(buffer) = Text(formatted)

\* ------------------------------------------------------------------------
\* C18.  write_str fails only when the sink fails.  When every write to
\* the sink succeeds, write_str returns Ok (and does not panic), for every
\* variant and every (m, n).  When a write to the sink returns Err,
\* write_str returns Err and calls the sink no more: the failed call is the
\* last one, and the sink holds the chunks of the calls before it.
\* ------------------------------------------------------------------------

\* A call of write_str on the sink has returned Err.
SinkFailed == sink.fails_at > 0 /\ sink.attempts >= sink.fails_at

C18_FailsOnlyWhenSinkFails ==
    parsed.status \in {"ok", "constructed"} =>
        /\ ~sink.panic
        /\ ~SinkFailed => ~sink.err
        /\ SinkFailed =>
              /\ sink.err
              /\ sink.attempts = sink.fails_at
              /\ Len(sink.writes) = sink.fails_at - 1
        /\ \E m \in FewSizes, n \in FewSizes :
              starts_with(write_str(parsed.tree, StringBuffer, m, n).writes, sink.writes)

\* Option<String> into a sink that fails its fifth call: the call that
\* writes the module path of the nested String.
C18_Witness ==
    /\ parsed.status = "ok"
    /\ parsed.tree.variant = "Struct"
    /\ Len(parsed.tree.type_params) = 1
    /\ sink.fails_at = 5
    /\ sink.err
    /\ sink.attempts = 5
    /\ sink.writes = <<<<>>, <<>>, <<"O", "p", "t", "i", "o", "n">>, <<"<">> >>

IsModuleSegment(segment) ==
    /\ segment # <<>>
    /\ segment[1] \in LowerCase
    /\ \A i \in 1 .. Len(segment) : segment[i] \in LowerCase \cup Digit \cup {"_"}

C20_ModulePathSegments ==
    parsed.status = "ok" =>
        \A k \in 1 .. Len(NominalNodes(parsed.tree)) :
            LET path == Payload(NominalNodes(parsed.tree)[k]).module_path
            IN  \A i \in 1 .. Len(path) : IsModuleSegment(path[i])

\* "a::b::c::D": module_name yields a, b, c and, after the last "::", the
\* empty name; the stored path is a, b, c.
C20_Witness ==
    /\ parsed.status = "ok"
    /\ parsed.tree.variant = "Struct"
    /\ module_names(std_type_name).kind = "Ok"
    /\ module_names(std_type_name).val = << <<"a">>, <<"b">>, <<"c">>, <<>> >>
    /\ parsed.tree.module_path = << <<"a">>, <<"b">>, <<"c">> >>

\* ------------------------------------------------------------------------
\* C21.  As stated: in every tree that parse returns, the simple name of
\* every Struct and Trait node is non-empty and begins with an ASCII
\* uppercase letter or is a primitive keyword, and a node named by a
\* primitive keyword has an empty module path and no type parameters.
\* (The Struct named "dyn" that the bare input "dyn" gives is left out of
\* the formula, so that a violation is an empty or otherwise malformed
\* name.)
\* ------------------------------------------------------------------------

IsPrimitiveKeyword(name) == \E i \in 1 .. Len(PRIMITIVE_TYPES) : name = PRIMITIVE_TYPES[i]

C21_SimpleNames ==
    parsed.status = "ok" =>
        \A k \in 1 .. Len(NominalNodes(parsed.tree)) :
            LET self == Payload(NominalNodes(parsed.tree)[k])
            IN  \/ /\ self.simple_name # <<>>
                   /\ self.simple_name[1] \in UpperCase
                \/ /\ IsPrimitiveKeyword(self.simple_name)
                   /\ self.module_path = <<>>
                   /\ self.type_params = <<>>
                \/ /\ self.simple_name = <<"d", "y", "n">>
                   /\ std_type_name = <<"d", "y", "n">>

\* ------------------------------------------------------------------------
\* C22.  As stated: an input "&" + text parses to a Reference that is
\* mutable if and only if text begins with the keyword mut and a space;
\* its referent is the tree of the text after "&mut " or after "&"; and it
\* renders "&mut " + referent or "&" + referent.  So "&mutex::Guard" is an
\* immutable reference to mutex::Guard.
\* ------------------------------------------------------------------------

MutKeyword == <<"m", "u", "t", " ">>

C22_MutableIffKeyword ==
    (parsed.status = "ok" /\ starts_with(std_type_name, <<"&">>)) =>
        LET after == Skip(std_type_name, 1)
            is_mut == starts_with(after, MutKeyword)
            referent == IF is_mut THEN Skip(after, Len(MutKeyword)) ELSE after
        IN  /\ parsed.tree.variant = "Reference"
            /\ parsed.tree.mutable = is_mut
            /\ From(referent) = [status |-> "ok", tree |-> parsed.tree.type_param]
            /\ Rendered =>
                  Text(buffer) = <<"&">> \o (IF is_mut THEN MutKeyword ELSE <<>>)
                                     \o NodeText(parsed.tree.type_param, M, N)

\* ------------------------------------------------------------------------
\* C23.  No render call panics, and write_module_path never indexes outside
\* the module path: for every node of a rendered tree whose path has L
\* segments, the windows [0..m] and [(L - n)..L] are taken only when
\* m + n < L, and then both lie inside the path and do not overlap.
\* ------------------------------------------------------------------------

C23_WindowsInsidePath ==
    Rendered =>
        /\ buffer.status = "ok"
        /\ \A k \in 1 .. Len(NominalNodes(parsed.tree)) :
               LET self == Payload(NominalNodes(parsed.tree)[k])
                   L == Len(self.module_path)
               IN  ~prints_full_path(saturating_add(M, N), L) =>
                       /\ M + N < L
                       /\ leading_segments(self, M).some
                       /\ trailing_segments(self, N).some
                       /\ M <= L - N

\* A node with more segments than m + n has been rendered with both windows
\* non-empty.
C23_Witness ==
    /\ Rendered
    /\ buffer.status = "ok"
    /\ M > 0
    /\ N > 0
    /\ \E k \in 1 .. Len(NominalNodes(parsed.tree)) :
           LET self == Payload(NominalNodes(parsed.tree)[k])
           IN  /\ ~prints_full_path(saturating_add(M, N), Len(self.module_path))
               /\ leading_segments(self, M).segments # <<>>
               /\ trailing_segments(self, N).segments # <<>>

\* ------------------------------------------------------------------------
\* C24.  Parsing terminates: every call of type_name made inside a call of
\* type_name is on a strictly shorter input than that call received, the
\* outermost call is on the whole input, so the depth of the calls is at
\* most the length of the input (the outermost call not counted), and
\* once the outermost call is over From has a tree, a parse error or the
\* pointer abort.
\* ------------------------------------------------------------------------

C24_CalleeInputsShrink ==
    /\ stack # <<>> => stack[1] = std_type_name
    /\ \A d \in 1 .. Len(stack) - 1 : Len(stack[d + 1]) < Len(stack[d])
    /\ Len(stack) <= Len(std_type_name) + 1
    /\ parsed.status \in {"unparsed", "parsing", "ok", "parse_panic", "unimplemented_panic"}
    /\ parsed.status \in {"ok", "parse_panic", "unimplemented_panic"} => stack = <<>>

\* Three calls of type_name are open, for a parameter inside a parameter.
C24_Witness ==
    /\ parsed.status = "parsing"
    /\ Len(stack) = 3
    /\ starts_with(stack[1], <<"a", ":", ":", "B", "<">>)
    /\ stack[3] # <<>>
    /\ From(std_type_name).status = "ok"

====
